---------------------------- MODULE Spec2Model ----------------------------
(***************************************************************************)
(* Model of src/src/apply_to_imu.cpp: the node "apply_declination_to_imu", *)
(* which moves every sensor_msgs/Imu sample of topic "data" into the frame *)
(* tf_link, rotates its orientation by the held declination and publishes  *)
(* the result on "data_decl".                                              *)
(*                                                                         *)
(* Numbers.  Angles are counted in quarter turns (pi/2), so that every     *)
(* sine and cosine of a half angle lies in {0, +-1/2, +-sqrt(2)/2, +-1}.   *)
(* A real number (a + b*sqrt(2))/4 is the pair <<a, b>>; all arithmetic of *)
(* tf's Quaternion and Matrix3x3 is then exact (floating-point rounding is *)
(* not modelled).                                                          *)
(***************************************************************************)
EXTENDS Integers, Sequences, FiniteSets, TLC

-----------------------------------------------------------------------------
\* Bounds of the model.
MaxCallbacks == 3      \* callbacks ros::spin() dispatches in one run
MaxAngle == 3          \* declination angles range over -1..MaxAngle quarter turns

-----------------------------------------------------------------------------
\* Exact arithmetic on numbers (a + b*sqrt(2))/4.
Zero == <<0, 0>>
One == <<4, 0>>
Two == <<8, 0>>
Half == <<2, 0>>
HalfRt2 == <<0, 2>>

NAdd(x, y) == <<x[1] + y[1], x[2] + y[2]>>
NNeg(x) == <<0 - x[1], 0 - x[2]>>
NSub(x, y) == NAdd(x, NNeg(y))
NMul(x, y) == <<(x[1] * y[1] + 2 * x[2] * y[2]) \div 4, (x[1] * y[2] + x[2] * y[1]) \div 4>>
NPos(x) == x[1] * x[1] * (IF x[1] < 0 THEN -1 ELSE 1) + 2 * x[2] * x[2] * (IF x[2] < 0 THEN -1 ELSE 1) > 0
NLess(x, y) == NPos(NSub(y, x))

\* tfSqrt on the values a rotation matrix of the model can hand it: 4, 2, 1.
tfSqrt(x) ==
  CASE x = <<16, 0>> -> Two
    [] x = Two -> <<0, 4>>
    [] x = One -> One

\* 0.5 / s for s = 2, sqrt(2), 1.
HalfOver(s) ==
  CASE s = Two -> <<1, 0>>
    [] s = <<0, 4>> -> <<0, 1>>
    [] s = One -> Half

\* tfCos and tfSin of k * 45 degrees (the half angle of k quarter turns).
tfCos(k) == <<One, HalfRt2, Zero, NNeg(HalfRt2), NNeg(One), NNeg(HalfRt2), Zero, HalfRt2>>[(k % 8) + 1]
tfSin(k) == <<Zero, HalfRt2, One, HalfRt2, Zero, NNeg(HalfRt2), NNeg(One), NNeg(HalfRt2)>>[(k % 8) + 1]

-----------------------------------------------------------------------------
\* tf::Quaternion: <<x, y, z, w>>.
Quat(x, y, z, w) == <<x, y, z, w>>
QIdentity == Quat(Zero, Zero, Zero, One)

\* tf::Quaternion::setEuler(yaw, pitch, roll): the half angles' sines and
\* cosines combined as tf combines them (yaw is the angle about Y, pitch
\* about X, roll about Z).  Angles in quarter turns.
setEuler(yaw, pitch, roll) ==
  LET cosYaw == tfCos(yaw)     sinYaw == tfSin(yaw)
      cosPitch == tfCos(pitch) sinPitch == tfSin(pitch)
      cosRoll == tfCos(roll)   sinRoll == tfSin(roll)
  IN Quat(NAdd(NMul(NMul(cosRoll, sinPitch), cosYaw), NMul(NMul(sinRoll, cosPitch), sinYaw)),
          NSub(NMul(NMul(cosRoll, cosPitch), sinYaw), NMul(NMul(sinRoll, sinPitch), cosYaw)),
          NSub(NMul(NMul(sinRoll, cosPitch), cosYaw), NMul(NMul(cosRoll, sinPitch), sinYaw)),
          NAdd(NMul(NMul(cosRoll, cosPitch), cosYaw), NMul(NMul(sinRoll, sinPitch), sinYaw)))

\* tf::Quaternion operator*(q1, q2).
QMul(q1, q2) ==
  Quat(NSub(NAdd(NAdd(NMul(q1[4], q2[1]), NMul(q1[1], q2[4])), NMul(q1[2], q2[3])), NMul(q1[3], q2[2])),
       NSub(NAdd(NAdd(NMul(q1[4], q2[2]), NMul(q1[2], q2[4])), NMul(q1[3], q2[1])), NMul(q1[1], q2[3])),
       NSub(NAdd(NAdd(NMul(q1[4], q2[3]), NMul(q1[3], q2[4])), NMul(q1[1], q2[2])), NMul(q1[2], q2[1])),
       NSub(NSub(NSub(NMul(q1[4], q2[4]), NMul(q1[1], q2[1])), NMul(q1[2], q2[2])), NMul(q1[3], q2[3])))

\* tf::Matrix3x3::setRotation(q) for a unit quaternion (s = 2 / length2 = 2).
setRotation(q) ==
  LET xs == NMul(q[1], Two) ys == NMul(q[2], Two) zs == NMul(q[3], Two)
      wx == NMul(q[4], xs)  wy == NMul(q[4], ys)  wz == NMul(q[4], zs)
      xx == NMul(q[1], xs)  xy == NMul(q[1], ys)  xz == NMul(q[1], zs)
      yy == NMul(q[2], ys)  yz == NMul(q[2], zs)  zz == NMul(q[3], zs)
  IN << <<NSub(One, NAdd(yy, zz)), NSub(xy, wz), NAdd(xz, wy)>>,
        <<NAdd(xy, wz), NSub(One, NAdd(xx, zz)), NSub(yz, wx)>>,
        <<NSub(xz, wy), NAdd(yz, wx), NSub(One, NAdd(xx, yy))>> >>

\* tf::Matrix3x3::getRotation(q): the quaternion of a rotation matrix.
getRotation(m) ==
  LET trace == NAdd(NAdd(m[1][1], m[2][2]), m[3][3])
  IN IF NPos(trace)
     THEN LET s == tfSqrt(NAdd(trace, One))
              r == HalfOver(s)
          IN Quat(NMul(NSub(m[3][2], m[2][3]), r),
                  NMul(NSub(m[1][3], m[3][1]), r),
                  NMul(NSub(m[2][1], m[1][2]), r),
                  NMul(s, Half))
     ELSE LET i == IF NLess(m[1][1], m[2][2])
                   THEN (IF NLess(m[2][2], m[3][3]) THEN 3 ELSE 2)
                   ELSE (IF NLess(m[1][1], m[3][3]) THEN 3 ELSE 1)
              j == (i % 3) + 1
              k == (j % 3) + 1
              s == tfSqrt(NAdd(NSub(NSub(m[i][i], m[j][j]), m[k][k]), One))
              r == HalfOver(s)
              temp == [n \in 1..4 |->
                         IF n = i THEN NMul(s, Half)
                         ELSE IF n = 4 THEN NMul(NSub(m[k][j], m[j][k]), r)
                         ELSE IF n = j THEN NMul(NAdd(m[j][i], m[i][j]), r)
                         ELSE NMul(NAdd(m[k][i], m[i][k]), r)]
          IN Quat(temp[1], temp[2], temp[3], temp[4])

\* tf::Matrix3x3 * tf::Vector3.
MatVec(m, v) ==
  [r \in 1..3 |-> NAdd(NAdd(NMul(m[r][1], v[1]), NMul(m[r][2], v[2])), NMul(m[r][3], v[3]))]

VAdd(u, v) == [r \in 1..3 |-> NAdd(u[r], v[r])]
VSub(u, v) == [r \in 1..3 |-> NSub(u[r], v[r])]
Vec(x, y, z) == <<x, y, z>>
VZero == Vec(Zero, Zero, Zero)

-----------------------------------------------------------------------------
\* ros::Time() : the value of a default-constructed stamp.
TimeZero == 0

\* sensor_msgs/Imu covariance arrays: nine float64, here nine copies of c.
Cov(c) == [i \in 1..9 |-> c]

\* A default-constructed sensor_msgs::Imu (handle_imu's local `imu`).
DefaultImu ==
  [header |-> [seq |-> 0, stamp |-> TimeZero, frame_id |-> ""],
   orientation |-> Quat(Zero, Zero, Zero, Zero),
   orientation_covariance |-> Cov(0),
   angular_velocity |-> VZero,
   angular_velocity_covariance |-> Cov(0),
   linear_acceleration |-> VZero,
   linear_acceleration_covariance |-> Cov(0)]

\* A default-constructed tf::Stamped<T>: only the stamp and the frame name.
StampedDefault == [stamp_ |-> TimeZero, frame_id_ |-> "NO_ID_STAMPED_DEFAULT_CONSTRUCTION"]

\* What a lookup that throws yields: a tf::TransformException (LookupException,
\* ConnectivityException or ExtrapolationException) instead of a transform.
TfFail == [ok |-> FALSE, what |-> "tf::TransformException"]

-----------------------------------------------------------------------------
\* Inputs of the node.

\* Values of the private parameter tf_link (default "base_link").
TargetFrames == {"base_link", "odom"}
\* header.frame_id of inbound samples.
SourceFrames == {"base_link", "imu_link"}
\* Declination angles a std_msgs/Float32 of topic "declination" carries, in quarter turns.
Angles == -1..MaxAngle
\* Values of the private parameter `default` (0.0 when unset), in quarter turns.
DefaultAngles == {0, 1}

QuarterZ == Quat(Zero, Zero, HalfRt2, HalfRt2)
HalfX == Quat(One, Zero, Zero, Zero)

\* Payloads of inbound samples: orientation, rates, accelerations, covariances, seq.
Payloads ==
  { [seq |-> 0, orientation |-> QIdentity, cov |-> 0,
     angular_velocity |-> VZero, linear_acceleration |-> Vec(Zero, Zero, One)],
    [seq |-> 7, orientation |-> QuarterZ, cov |-> 2,
     angular_velocity |-> Vec(One, Zero, Zero), linear_acceleration |-> Vec(Zero, One, One)],
    [seq |-> 8, orientation |-> HalfX, cov |-> -1,
     angular_velocity |-> Vec(Zero, One, Zero), linear_acceleration |-> Vec(Zero, Zero, NNeg(One))] }

ImuSamples(t) ==
  { [header |-> [seq |-> p.seq, stamp |-> t, frame_id |-> f],
     orientation |-> p.orientation,
     orientation_covariance |-> Cov(p.cov),
     angular_velocity |-> p.angular_velocity,
     angular_velocity_covariance |-> Cov(p.cov),
     linear_acceleration |-> p.linear_acceleration,
     linear_acceleration_covariance |-> Cov(p.cov)] :
    f \in SourceFrames, p \in Payloads }

\* The transforms the tf tree can hold between two frames: a tf::Transform is
\* a rotation matrix m_basis and a translation m_origin.
TfIdentity == [ok |-> TRUE, m_basis |-> setRotation(QIdentity), m_origin |-> VZero]
TfTransforms ==
  { [ok |-> TRUE, m_basis |-> setRotation(QuarterZ), m_origin |-> Vec(One, Zero, Zero)],
    [ok |-> TRUE, m_basis |-> setRotation(HalfX), m_origin |-> Vec(Zero, Zero, One)] }

\* What tf::Transformer::lookupTransform can answer to one request: it
\* throws, or yields the transform of the tree (the identity between a frame
\* and itself).
lookupTransform(target_frame, source_frame, time) ==
  {TfFail} \cup (IF target_frame = source_frame THEN {TfIdentity} ELSE TfTransforms)

\* tf::Transform::operator*(const Quaternion&): getRotation() * q.
TransformMulQuat(t, q) == QMul(getRotation(t.m_basis), q)
\* tf::Transform::operator*(const Vector3&): m_basis * v + m_origin.
TransformMulVec(t, v) == VAdd(MatVec(t.m_basis, v), t.m_origin)

\* tf::Transformer::transformQuaternion with the looked-up transform t.
transformQuaternion(t, stamped_in) == TransformMulQuat(t, stamped_in)
\* tf::Transformer::transformVector with the looked-up transform t:
\* (t * end) - (t * origin), the rotation without the translation.
transformVector(t, stamped_in) == VSub(TransformMulVec(t, stamped_in), TransformMulVec(t, VZero))

-----------------------------------------------------------------------------
\* class DeclinationTransform : public tf::Transform.  Only m_basis is modelled:
\* the default constructor of tf::Transform initialises nothing, setRotation
\* writes m_basis alone, and operator*(Quaternion) reads m_basis alone.

\* What an uninitialised m_basis may hold before the first set_declination.
UninitBasis == {setRotation(QIdentity), setRotation(HalfX)}

\* tf::Matrix3x3 * tf::Matrix3x3.
MatMul(m, n) ==
  [r \in 1..3 |-> [c \in 1..3 |->
     NAdd(NAdd(NMul(m[r][1], n[1][c]), NMul(m[r][2], n[2][c])), NMul(m[r][3], n[3][c]))]]

\* Mutant of set_declination: the new rotation is composed with the held one.
set_declination_composed(self, decl) ==
  LET quat == setEuler(decl, 0, 0)
  IN [self EXCEPT !.m_basis = MatMul(@, setRotation(quat))]

\* DeclinationTransform::set_declination(decl) on the holder `self`.
set_declination(self, decl) ==
  LET quat == setEuler(decl, 0, 0)
  IN [self EXCEPT !.m_basis = setRotation(quat)]

\* Mutant of msg: the update is dropped.
msg_dropped(self, declination_msg) == self

\* DeclinationTransform::msg(declination_msg) on the holder `self`.
msg(self, declination_msg) == set_declination(self, declination_msg.data)

-----------------------------------------------------------------------------
\* Mutant of set_header: the output keeps the frame name of the input.
set_header_source_frame(tf_link, imu_in, imu_out) ==
  [imu_out EXCEPT !.header.stamp = imu_in.header.stamp,
                  !.header.frame_id = imu_in.header.frame_id]

\* imu_to_frame, its last two statements: the header of imu_out.
set_header(tf_link, imu_in, imu_out) ==
  [imu_out EXCEPT !.header.stamp = imu_in.header.stamp,
                  !.header.frame_id = tf_link]

\* imu_to_frame(tf_listener, tf_link, imu_in, imu_out).  `answers` are the
\* listener's answers to the lookups, in call order; an answer that is a
\* failure is thrown out of the function, so the later calls are not made.
\* Yields the requests made, whether a tf::TransformException left the
\* function, and imu_out as far as it was written.
imu_to_frame(answers, tf_link, imu_in, imu_out) ==
  LET orient_in == [StampedDefault EXCEPT !.frame_id_ = imu_in.header.frame_id]
      vel_in == [StampedDefault EXCEPT !.frame_id_ = imu_in.header.frame_id]
      accel_in == [StampedDefault EXCEPT !.frame_id_ = imu_in.header.frame_id]
      req(op, stamped) == [op |-> op, target_frame |-> tf_link,
                           source_frame |-> stamped.frame_id_, time |-> stamped.stamp_]
      r1 == req("transformQuaternion", orient_in)
      r2 == req("transformVector", vel_in)
      r3 == req("transformVector", accel_in)
      out1 == [imu_out EXCEPT !.orientation = transformQuaternion(answers[1], imu_in.orientation)]
      out2 == [out1 EXCEPT !.angular_velocity = transformVector(answers[2], imu_in.angular_velocity)]
      out3 == [out2 EXCEPT !.linear_acceleration = transformVector(answers[3], imu_in.linear_acceleration)]
  IN IF ~answers[1].ok THEN [threw |-> TRUE, requests |-> <<r1>>, imu_out |-> imu_out]
     ELSE IF ~answers[2].ok THEN [threw |-> TRUE, requests |-> <<r1, r2>>, imu_out |-> out1]
     ELSE IF ~answers[3].ok THEN [threw |-> TRUE, requests |-> <<r1, r2, r3>>, imu_out |-> out2]
     ELSE [threw |-> FALSE, requests |-> <<r1, r2, r3>>, imu_out |-> set_header(tf_link, imu_in, out3)]

\* Mutant of rotate_orientation: the rates are rotated by the declination too.
rotate_orientation_and_rates(transform, imu) ==
  [imu EXCEPT !.orientation = TransformMulQuat(transform, @),
              !.angular_velocity = MatVec(transform.m_basis, @)]

\* handle_imu, "Rotate orientation by declination amount": orient = transform * orient.
rotate_orientation(transform, imu) ==
  LET orient == TransformMulQuat(transform, imu.orientation)
  IN [imu EXCEPT !.orientation = orient]

\* Mutant of publish: the message is handed to the topic twice.
publish_twice(imu) == <<imu, imu>>

\* handle_imu, pub_imu.publish(imu): the messages handed to topic "data_decl".
publish(imu) == <<imu>>

\* Mutant of handle_imu: the exception is swallowed and imu is published as far
\* as imu_to_frame wrote it.
handle_imu_publish_partial(imu_ptr, answers, transform, tf_link) ==
  LET r == imu_to_frame(answers, tf_link, imu_ptr, DefaultImu)
  IN [threw |-> FALSE, requests |-> r.requests,
      published |-> publish(rotate_orientation(transform, r.imu_out)), logged |-> <<>>]

\* handle_imu(imu_ptr, pub_imu, tf_listener, transform, tf_link).  Yields the
\* requests made of the listener, whether the exception left the callback
\* (the function has no try block), the messages handed to pub_imu and the
\* log records emitted (the function has no logging statement).
handle_imu(imu_ptr, answers, transform, tf_link) ==
  LET r == imu_to_frame(answers, tf_link, imu_ptr, DefaultImu)
  IN IF r.threw
     THEN [threw |-> TRUE, requests |-> r.requests, published |-> <<>>, logged |-> <<>>]
     ELSE [threw |-> FALSE, requests |-> r.requests,
           published |-> publish(rotate_orientation(transform, r.imu_out)), logged |-> <<>>]

-----------------------------------------------------------------------------
VARIABLES
  tf_link,                \* main: the parameter ~tf_link
  declination_rads,       \* main: the parameter ~default
  declination_transform,  \* main: the DeclinationTransform both callbacks share
  running,                \* the process is alive and ros::spin() dispatches
  dispatched,             \* number of callbacks dispatched so far
  last_declination,       \* <<>>, or <<m>> for the last message m of topic "declination" handled
  imu_in,                 \* <<>>, or <<m>> for the last sample m of topic "data" handled
  tf_requests,            \* the listener requests made for that sample
  tf_answers,             \* the listener's answers to them
  imu_pub,                \* the messages published while handling that sample
  data,                   \* history of topic "data": each sample's stamp, and whether its lookups all succeeded
  data_decl,              \* history of topic "data_decl": stamp of each message published
  rosout                  \* the log records the node has emitted

vars == <<tf_link, declination_rads, declination_transform, running, dispatched,
          last_declination, imu_in, tf_requests, tf_answers, imu_pub, data, data_decl, rosout>>

\* main(), up to ros::spin(): parameters read, the holder constructed and set
\* to the default declination, nothing handled yet.
Init ==
  /\ tf_link \in TargetFrames
  /\ declination_rads \in DefaultAngles
  /\ \E u \in UninitBasis :
       declination_transform = set_declination([m_basis |-> u], declination_rads)
  /\ running = TRUE
  /\ dispatched = 0
  /\ last_declination = <<>>
  /\ imu_in = <<>>
  /\ tf_requests = <<>>
  /\ tf_answers = <<>>
  /\ imu_pub = <<>>
  /\ data = <<>>
  /\ data_decl = <<>>
  /\ rosout = <<>>

\* ros::spin() dispatches a message of topic "declination" to DeclinationTransform::msg.
DeclinationCallback ==
  /\ running
  /\ dispatched < MaxCallbacks
  /\ \E a \in Angles :
       LET declination_msg == [data |-> a]
       IN /\ declination_transform' = msg(declination_transform, declination_msg)
          /\ last_declination' = <<declination_msg>>
  /\ dispatched' = dispatched + 1
  /\ UNCHANGED <<tf_link, declination_rads, running, imu_in, tf_requests, tf_answers,
                 imu_pub, data, data_decl, rosout>>

\* The answers the listener can give to the lookups of one callback, in call
\* order.  The listener's own thread updates the tree between the calls, so
\* each lookup is answered on its own; a lookup that throws is the last.
Answers(target_frame, source_frame, time) ==
  LET L == lookupTransform(target_frame, source_frame, time)
      good == L \ {TfFail}
  IN {<<TfFail>>}
     \cup {<<a1, TfFail>> : a1 \in good}
     \cup {<<a1, a2, TfFail>> : a1 \in good, a2 \in good}
     \cup {<<a1, a2, a3>> : a1 \in good, a2 \in good, a3 \in good}

\* ros::spin() dispatches a sample of topic "data" to handle_imu.  The sample
\* carries the stamp of the sensor's clock, which ticks once per sample.  An
\* exception that leaves the callback leaves ros::spin() and main() too:
\* nothing catches it, std::terminate ends the process.
ImuCallback ==
  /\ running
  /\ dispatched < MaxCallbacks
  /\ \E imu_ptr \in ImuSamples(Len(data) + 1) :
       \E answers \in Answers(tf_link, imu_ptr.header.frame_id, StampedDefault.stamp_) :
           \E h \in {handle_imu(imu_ptr, answers, declination_transform, tf_link)} :
             /\ imu_in' = <<imu_ptr>>
             /\ tf_requests' = h.requests
             /\ tf_answers' = answers
             /\ imu_pub' = h.published
             /\ data' = Append(data, [stamp |-> imu_ptr.header.stamp,
                                    transformed |-> \A i \in DOMAIN answers : answers[i].ok])
             /\ data_decl' = data_decl \o [i \in 1..Len(h.published) |-> h.published[i].header.stamp]
             /\ rosout' = rosout \o h.logged
             /\ running' = ~h.threw
  /\ dispatched' = dispatched + 1
  /\ UNCHANGED <<tf_link, declination_rads, declination_transform, last_declination>>

Next == DeclinationCallback \/ ImuCallback

Spec == Init /\ [][Next]_vars

-----------------------------------------------------------------------------
\* Vocabulary of the properties.

\* A sample has been handled, and it is imu_in[1].
Handled == imu_in # <<>>
\* The listener failed on one of the lookups made for the last sample handled.
TransformFailed == Handled /\ \E i \in DOMAIN tf_answers : ~tf_answers[i].ok
\* Handling the last sample published something.
Published == imu_pub # <<>>
\* The angle of the most recent declination update handled, or the parameter
\* `default` when none has been handled.
LatestAngle == IF last_declination = <<>> THEN declination_rads ELSE last_declination[1].data
\* A rotation by k quarter turns about the vertical (Z) axis and no other:
\* roll = pitch = 0, yaw = k.
YawAboutVertical(k) == Quat(Zero, Zero, tfSin(k), tfCos(k))
\* The stamps of the samples of `data` whose lookups all succeeded, in order.
Transformed(e) == e.transformed
TransformedStamps ==
  LET good == SelectSeq(data, Transformed)
  IN [i \in 1..Len(good) |-> good[i].stamp]

-----------------------------------------------------------------------------
\* C1: a sample for which the listener fails on any of the three lookups causes
\* no publication: handling it publishes nothing, no message of data_decl
\* carries its stamp, and whatever is published had all three lookups succeed.
C1_NoPublicationOnTransformFailure ==
  /\ TransformFailed =>
       /\ imu_pub = <<>>
       /\ \A i \in DOMAIN data_decl : data_decl[i] # imu_in[1].header.stamp
  /\ Published => Len(tf_answers) = 3 /\ \A i \in DOMAIN tf_answers : tf_answers[i].ok

\* C1 witness: the first lookup succeeded, the second failed, nothing was published.
C1_Witness ==
  /\ Handled /\ Len(tf_answers) = 2 /\ tf_answers[1].ok /\ ~tf_answers[2].ok
  /\ imu_pub = <<>> /\ Len(data_decl) = Len(data) - 1 /\ Len(data) = 2

\* C2: a transform failure is not fatal: after the listener has failed for a
\* sample the node still dispatches callbacks.
C2_TransformFailureNotFatal == TransformFailed => running

\* C3: the orientation published is the transformed orientation rotated by the
\* declination of the most recent update handled (of the parameter `default`
\* if there was none) before the sample was handled, and handling a sample
\* leaves the held declination alone.
C3_AppliedDeclinationIsLatest ==
  [][data' # data =>
       /\ declination_transform' = declination_transform
       /\ \A i \in DOMAIN imu_pub' :
            imu_pub'[i].orientation =
              QMul(getRotation(setRotation(setEuler(LatestAngle, 0, 0))),
                   transformQuaternion(tf_answers'[1], imu_in'[1].orientation))]_vars

\* C3 witness: a sample published after an update that differs from the default.
C3_Witness ==
  /\ Published /\ last_declination # <<>>
  /\ last_declination[1].data = 1 /\ declination_rads = 0
  /\ imu_in[1].orientation = QuarterZ

\* C4: set_declination replaces: after any sequence of calls ending with angle b
\* the holder is what one set_declination(b) makes of a fresh holder, whatever
\* the fresh holder held.
C4_SetDeclinationReplaces ==
  \A u \in UninitBasis :
    declination_transform = set_declination([m_basis |-> u], LatestAngle)

\* C4 witness: two updates handled on top of a non-zero default.
C4_Witness ==
  /\ dispatched = 2 /\ data = <<>> /\ declination_rads = 1
  /\ last_declination # <<>> /\ last_declination[1].data = 2

\* C5: every published message carries frame_id = tf_link and the stamp of the
\* sample it was made from.
C5_HeaderRelabelled ==
  \A i \in DOMAIN imu_pub :
    /\ imu_pub[i].header.frame_id = tf_link
    /\ imu_pub[i].header.stamp = imu_in[1].header.stamp

\* C5 witness: a sample of another frame, moved by a transform that is not the
\* identity, has been published.
C5_Witness ==
  /\ Published /\ imu_in[1].header.frame_id # tf_link
  /\ imu_in[1].header.stamp = 2 /\ tf_answers[1] # TfIdentity

\* C6: each sample whose lookups all succeed is published exactly once, while it
\* is handled, and data_decl is the sequence of those samples in delivery order.
C6_OnePublicationPerTransformedSample ==
  /\ data_decl = TransformedStamps
  /\ (Handled /\ ~TransformFailed) =>
       Len(imu_pub) = 1 /\ data_decl[Len(data_decl)] = imu_in[1].header.stamp

\* C6 witness: three samples delivered, the first two published in order, the third dropped.
C6_Witness ==
  /\ Len(data) = 3 /\ data_decl = <<1, 2>> /\ ~data[3].transformed

\* C7: each request made of the listener asks for the transform from the
\* sample's frame to tf_link at the sample's own stamp.
C7_LookupAtSampleStamp ==
  Handled =>
    \A i \in DOMAIN tf_requests :
      /\ tf_requests[i].target_frame = tf_link
      /\ tf_requests[i].source_frame = imu_in[1].header.frame_id
      /\ tf_requests[i].time = imu_in[1].header.stamp

\* C8: when the listener fails for a sample, a diagnostic log record has been
\* emitted by the time the callback is over.
C8_FailureIsLogged == TransformFailed => rosout # <<>>

\* C9: the held rotation is always the rotation about the vertical axis by the
\* last angle given to set_declination.
C9_HeldRotationIsYawAboutVertical ==
  declination_transform.m_basis = setRotation(YawAboutVertical(LatestAngle))

\* C10: the published message is a default message in which only the stamp,
\* the frame name, the orientation, the rates and the accelerations are
\* written: seq and the covariances have their default values, and the rates
\* and accelerations are the listener's, untouched by the declination.
C10_OnlyFiveFieldsWritten ==
  \A i \in DOMAIN imu_pub :
    /\ imu_pub[i].header.seq = DefaultImu.header.seq
    /\ imu_pub[i].orientation_covariance = DefaultImu.orientation_covariance
    /\ imu_pub[i].angular_velocity_covariance = DefaultImu.angular_velocity_covariance
    /\ imu_pub[i].linear_acceleration_covariance = DefaultImu.linear_acceleration_covariance
    /\ imu_pub[i].angular_velocity = transformVector(tf_answers[2], imu_in[1].angular_velocity)
    /\ imu_pub[i].linear_acceleration = transformVector(tf_answers[3], imu_in[1].linear_acceleration)

\* C10 witness: a sample with covariances, a seq and rates of its own has been
\* published under a declination that is not the identity.
C10_Witness ==
  /\ Published /\ LatestAngle = 1
  /\ imu_in[1].header.seq # DefaultImu.header.seq
  /\ imu_in[1].orientation_covariance # DefaultImu.orientation_covariance
  /\ imu_in[1].angular_velocity = Vec(One, Zero, Zero)

=============================================================================
